---- MODULE Spec2Model ----
(***************************************************************************)
(* Model of the conversational session engine of mastodon-gemini-chat.     *)
(*                                                                         *)
(* src/src/llm.ts       sendMessage and the model router                   *)
(* src/src/chat.ts      conversationContexts (the session store)           *)
(* src/src/mastodon.js  lines 319-586: connect, handleMention, postReply   *)
(*                                                                         *)
(* The process is a single Node.js event loop.  An action of the model is  *)
(* the code that runs between two suspensions on real I/O (a fetch, a      *)
(* backend invocation, a post); an await on a promise that is already      *)
(* settled (clearConversation, readSystemPrompt, initializeMcp once it is  *)
(* initialized) runs within the same task and is part of the same action.  *)
(*                                                                         *)
(* Text is a sequence of tokens (strings); a token stands for a phrase.    *)
(* A regular expression of the source is the set of tokens it matches.     *)
(* Time is counted in minutes, so Math.floor(ms / 60000) is the value.     *)
(* Not modelled: image attachments (llm.ts 393-412, mastodon.js 460-471),  *)
(* a missing credential or unsupported provider in getModelInstance (the   *)
(* entry point refuses to start without the credential).                   *)
(***************************************************************************)
EXTENDS Integers, Sequences, FiniteSets, TLC

\* ------------------------------------------------------------------ bounds
MaxModels == 2      \* MODEL_NAMES holds 1..MaxModels names
MaxCalls == 3       \* sendMessage calls made directly (SpecEngine)
MaxMentions == 2    \* mention notifications delivered (Spec)
MaxTime == 1        \* the clock runs from 0 to MaxTime
Capacity == 2       \* sessions kept by a sweep: stands for the 1000 of chat.ts 143
MaxAge == 2         \* clock units a session lives: stands for the 24 hours of chat.ts 142
MaxClock == 3       \* the clock of the session store runs from 0 to MaxClock (SpecStore)
MaxLen == 5         \* tokens of a text given to stripHtml (SpecText)
MaxApplications == 2    \* times stripHtml is applied in a row (SpecText)
MaxEvents == 3      \* error and close events the streams emit (SpecStream)
MaxFailures == 2    \* times client.userSocket() throws (SpecStream)
MaxReply == 3       \* tokens of a text given to postReply (SpecReply)

\* ------------------------------------------------------- program constants
MaxAttempts == 3            \* for (let i = 0; i < 3; i++)
MAX_CONTEXT_LENGTH == 3     \* process.env.MAX_CONTEXT_LENGTH, as configured
ReconnectDelay == 5000      \* setTimeout(..., 5000) in reconnect

CONTEXT_EXPIRY_MS == MaxAge    \* chat.ts 142, in clock units
MAX_CONTEXTS == Capacity       \* chat.ts 143

ERROR_MESSAGE == <<"ERR">>
BLOCKED_PATTERNS == {"inj"}
RATE_LIMIT_PATTERNS == {"429"}
NOT_FOUND_PATTERNS == {"404"}

VARIABLES
  NModels,            \* MODEL_NAMES.length
  behaviour,          \* what the backend of each model does when invoked
  SYSTEM_PROMPT,      \* llm.ts module constant, read from the environment
  mcpConfigured,      \* data/mcp.json names at least one server
  now,                \* Date.now()
  currentModelIndex,
  modelLastUsed,
  modelInstances,     \* llm.ts 83: model index -> the client cached for it, named by
                      \* its place among the clients constructed so far
  agentWithTools,     \* {} for null, {m} for an agent built on model m
  isInitialized,      \* mcp.ts
  mcpClient,          \* mcp.ts: TRUE for a client, FALSE for null
  messageHistories,   \* conversation id -> array reference
  arrays,             \* array reference -> the array's turns
  call,               \* slot -> activation of sendMessage
  ncalls,             \* direct calls made so far
  statuses,           \* the statuses on the server, by id
  handler,            \* slot -> activation of handleMention
  conversationContexts,   \* chat.ts: the Map, as its entries in insertion order
  users,              \* data/users.json: acct -> systemprompt
  posted,             \* the calls of client.postStatus, in order
  lastOp,             \* history variable: the last operation on the session store,
                      \* and the entries a sweep found
  norm,               \* a text and the results of stripHtml applied to it in a row
  stream,             \* mastodon.js 359: 0 for null, else the stream object
  sockets,            \* the stream objects with listeners: id -> [stopped, emitted]
  timers,             \* the delays of the pending setTimeout callbacks of reconnect
  feed                \* counters: connect() calls, events emitted, userSocket() failures

engineVars == <<currentModelIndex, modelLastUsed, modelInstances, agentWithTools,
                isInitialized, mcpClient, messageHistories, arrays>>
configVars == <<NModels, behaviour, SYSTEM_PROMPT, mcpConfigured>>
dispatchVars == <<statuses, handler, conversationContexts, users, posted>>
feedVars == <<stream, sockets, timers, feed>>
vars == <<configVars, now, engineVars, call, ncalls, dispatchVars, lastOp, norm, feedVars>>

Slots == 1..MaxMentions
Behaviours == {"ok", "empty", "ratelimit", "notfound", "error", "flaky"}

\* ------------------------------------------------------------------- text
Includes(text, part) ==
  \E k \in 0..(Len(text) - Len(part)) : SubSeq(text, k + 1, k + Len(part)) = part

Matches(text, patterns) == \E k \in 1..Len(text) : text[k] \in patterns

DateTok(t) == "date" \o ToString(t)
ModelTok(m) == "model" \o ToString(m)

\* a guard that lets every message through
isMessageSafe_none(message) == TRUE

isMessageSafe(message) == ~Matches(message, BLOCKED_PATTERNS)

isRateLimitError(err) == Matches(err, RATE_LIMIT_PATTERNS)

isNotFoundError(err) == Matches(err, NOT_FOUND_PATTERNS)

filterResponse(response, t) ==
  IF SYSTEM_PROMPT = <<>> THEN response
  ELSE IF Includes(response, SYSTEM_PROMPT) THEN ERROR_MESSAGE
  ELSE IF Includes(response, <<DateTok(t)>>) THEN ERROR_MESSAGE
  ELSE response

HumanMessage(text) == [role |-> "user", content |-> text]
AIMessage(text) == [role |-> "model", content |-> text]

\* the system turn of llm.ts 376-383 (and 303-310)
SystemText(g, c, t) ==
  <<DateTok(t), ModelTok(g.currentModelIndex)>>
    \o (IF isMessageSafe(c.userName) THEN c.userName ELSE <<>>)
    \o c.systemPrompt

\* ----------------------------------------------------------- model router
\* a router that goes back to model 0 only after more than a minute
updateModelUsage_late(g, t) ==
  IF t - g.modelLastUsed.timestamp > 1 /\ g.currentModelIndex # 0
  THEN [g EXCEPT !.currentModelIndex = 0,
                 !.modelLastUsed = [timestamp |-> t, modelIndex |-> 0]]
  ELSE g

updateModelUsage(g, t) ==
  IF t - g.modelLastUsed.timestamp >= 1 /\ g.currentModelIndex # 0
  THEN [g EXCEPT !.currentModelIndex = 0,
                 !.modelLastUsed = [timestamp |-> t, modelIndex |-> 0]]
  ELSE g

\* the value updateModelUsage returns
updateModelUsageResult(g, t) ==
  t - g.modelLastUsed.timestamp >= 1 /\ g.currentModelIndex # 0

\* a router that moves on without noting when
switchToNextModel_untimed(g, t) ==
  LET nextIndex == (g.currentModelIndex + 1) % NModels IN
  IF nextIndex = g.currentModelIndex THEN g
  ELSE [g EXCEPT !.currentModelIndex = nextIndex]

switchToNextModel(g, t) ==
  LET nextIndex == (g.currentModelIndex + 1) % NModels IN
  IF nextIndex = g.currentModelIndex THEN g
  ELSE [g EXCEPT !.currentModelIndex = nextIndex,
                 !.modelLastUsed = [timestamp |-> t, modelIndex |-> nextIndex]]

\* the value switchToNextModel returns
switchToNextModelResult(g) == (g.currentModelIndex + 1) % NModels # g.currentModelIndex

\* the place of the next client among the clients constructed
NextInstance(g) ==
  LET made == {g.modelInstances[m] : m \in DOMAIN g.modelInstances} IN
  IF made = {} THEN 1 ELSE 1 + (CHOOSE x \in made : \A y \in made : y <= x)

\* a cache that constructs a client on every call
getModelInstance_uncached(g, m) ==
  [g EXCEPT !.modelInstances =
     (m :> NextInstance(g)) @@ [k \in DOMAIN @ \ {m} |-> @[k]]]

getModelInstance(g, m) ==
  IF m \in DOMAIN g.modelInstances THEN g
  ELSE [g EXCEPT !.modelInstances = (m :> NextInstance(g)) @@ @]

\* ---------------------------------------------------------- histories
FreshArray(g) ==
  CHOOSE a \in 1..(Cardinality(DOMAIN g.arrays) + 1) : a \notin DOMAIN g.arrays

getMessageHistory(g, id) ==
  IF id \in DOMAIN g.messageHistories THEN g
  ELSE LET a == FreshArray(g) IN
       [g EXCEPT !.messageHistories = (id :> a) @@ @,
                 !.arrays = (a :> <<>>) @@ @]

clearConversation(g, id) ==
  IF id \in DOMAIN g.messageHistories
  THEN LET a == FreshArray(g) IN
       [g EXCEPT !.messageHistories = (id :> a) @@ @,
                 !.arrays = (a :> <<>>) @@ @]
  ELSE g

\* llm.ts 364-370: 'user' -> HumanMessage, 'assistant' | 'model' -> AIMessage
RECURSIVE toMessages(_)
toMessages(history) ==
  IF history = <<>> THEN <<>>
  ELSE LET item == Head(history) IN
       (IF item.role = "user" THEN <<HumanMessage(item.content)>>
        ELSE IF item.role \in {"assistant", "model"} THEN <<AIMessage(item.content)>>
        ELSE <<>>) \o toMessages(Tail(history))

\* llm.ts 384-389
Truncate(messages) ==
  IF Len(messages) > MAX_CONTEXT_LENGTH + 1
  THEN <<messages[1]>> \o SubSeq(messages, Len(messages) - MAX_CONTEXT_LENGTH + 1, Len(messages))
  ELSE messages

\* ------------------------------------------------------------ sendMessage
IdleCall ==
  [pc |-> "idle", systemPrompt |-> <<>>, conversationId |-> <<"", 0>>, userName |-> <<>>,
   message |-> <<>>, history |-> <<>>, recursiveCount |-> 0, i |-> 0,
   messageHistory |-> 0, inputMessages |-> <<>>, model |-> 0, date |-> 0,
   ret |-> <<>>, raw |-> <<>>, invocations |-> 0, index0 |-> 0,
   activation |-> 0, switches |-> 0, before |-> <<>>, entry |-> <<>>]

\* llm.ts 82: conversation id -> the turns stored for it
StoredHistories(g) ==
  [id \in DOMAIN g.messageHistories |-> g.arrays[g.messageHistories[id]]]

\* what the engine keeps between calls: the histories (llm.ts 95), the
\* router's index (llm.ts 20) and modelLastUsed (llm.ts 85), the clients
\* (llm.ts 83)
Frame(g) ==
  [histories |-> StoredHistories(g), currentModelIndex |-> g.currentModelIndex,
   modelLastUsed |-> g.modelLastUsed, modelInstances |-> g.modelInstances]

NewCall(g, systemPrompt, conversationId, userName, message, history) ==
  [IdleCall EXCEPT !.systemPrompt = systemPrompt, !.conversationId = conversationId,
                   !.userName = userName, !.message = message, !.history = history,
                   !.index0 = g.currentModelIndex, !.before = StoredHistories(g),
                   !.entry = Frame(g)]

Return(g, c, text) == [g |-> g, c |-> [c EXCEPT !.pc = "done", !.ret = text]]

\* llm.ts 361-391 and the first model.invoke of 413-417
BasicModel(g, c, t) ==
  LET id == c.conversationId
      g1 == getMessageHistory(g, id)
      mh == g1.messageHistories[id]
      g2 == IF Len(c.history) > 0 THEN clearConversation(g1, id) ELSE g1
      pushed == g2.arrays[mh]
                  \o (IF Len(c.history) > 0 THEN toMessages(c.history) ELSE <<>>)
                  \o (IF c.message # <<>> THEN <<HumanMessage(c.message)>> ELSE <<>>)
      g3 == [g2 EXCEPT !.arrays[mh] = pushed]
      systemMessage == [role |-> "system", content |-> SystemText(g3, c, t)]
      messages == Truncate(<<systemMessage>> \o pushed)
      g4 == getModelInstance(g3, g3.currentModelIndex)
  IN [g |-> g4,
      c |-> [c EXCEPT !.pc = "invoke", !.messageHistory = mh, !.inputMessages = messages,
                      !.model = g3.currentModelIndex, !.date = t, !.i = 0,
                      !.invocations = @ + 1, !.activation = @ + 1]]

\* llm.ts 297-339: updateModelUsage, then the agent when there is one
Continue(g, c, t) ==
  LET g1 == updateModelUsage(g, t) IN
  IF g1.agentWithTools # {}
  THEN LET messages ==
             <<[role |-> "user", content |-> SystemText(g1, c, t)],
               [role |-> "assistant", content |-> <<"ack">>]>>
               \o toMessages(c.history)
               \o (IF c.message # <<>> THEN <<HumanMessage(c.message)>> ELSE <<>>)
       IN [g |-> g1,
           c |-> [c EXCEPT !.pc = "agent", !.inputMessages = messages, !.date = t,
                           !.model = CHOOSE m \in g1.agentWithTools : TRUE,
                           !.invocations = @ + 1, !.activation = @ + 1]]
  ELSE BasicModel(g1, c, t)

\* llm.ts 220-272 after initializeMcp has returned
AfterInitializeMcp(g, c, t) ==
  LET g1 == IF g.mcpClient
            THEN [getModelInstance(g, g.currentModelIndex)
                    EXCEPT !.agentWithTools = {g.currentModelIndex}]
            ELSE g
  IN Continue(g1, c, t)

\* an activation that looks the history up before it tests its guards
sendMessage_historyFirst(g, c, t) ==
  LET g0 == getMessageHistory(g, c.conversationId) IN
  IF c.recursiveCount > Cardinality(DOMAIN g0.modelInstances) * 3 + 1
  THEN Return(g0, c, ERROR_MESSAGE)
  ELSE IF ~isMessageSafe(c.message) THEN Return(g0, c, ERROR_MESSAGE)
  ELSE IF g0.agentWithTools = {}
  THEN IF g0.isInitialized THEN AfterInitializeMcp(g0, c, t)
       ELSE IF ~mcpConfigured
       THEN AfterInitializeMcp([g0 EXCEPT !.isInitialized = TRUE], c, t)
       ELSE [g |-> [g0 EXCEPT !.mcpClient = TRUE], c |-> [c EXCEPT !.pc = "mcp"]]
  ELSE Continue(g0, c, t)

\* llm.ts 283-295: one activation of sendMessage up to its first suspension
sendMessage(g, c, t) ==
  IF c.recursiveCount > Cardinality(DOMAIN g.modelInstances) * 3 + 1
  THEN Return(g, c, ERROR_MESSAGE)
  ELSE IF ~isMessageSafe(c.message) THEN Return(g, c, ERROR_MESSAGE)
  ELSE IF g.agentWithTools = {}
  THEN IF g.isInitialized THEN AfterInitializeMcp(g, c, t)
       ELSE IF ~mcpConfigured
       THEN AfterInitializeMcp([g EXCEPT !.isInitialized = TRUE], c, t)
       ELSE [g |-> [g EXCEPT !.mcpClient = TRUE], c |-> [c EXCEPT !.pc = "mcp"]]
  ELSE Continue(g, c, t)

\* llm.ts 437-439
Record(g, c, text, t) ==
  LET filteredText == filterResponse(text, t) IN
  Return([g EXCEPT !.arrays[c.messageHistory] = Append(@, AIMessage(filteredText))],
         [c EXCEPT !.raw = text], filteredText)

\* the next activation, for the tail call of llm.ts 431, entered in g
Recurse(g, c) ==
  [c EXCEPT !.recursiveCount = @ + 1, !.i = 0, !.messageHistory = 0, !.inputMessages = <<>>,
            !.activation = 0, !.entry = Frame(g)]

\* llm.ts 413-436, on the settlement of model.invoke
AfterInvoke(g, c, o, t) ==
  IF o.kind = "text" /\ o.text # <<>>
  THEN Record(g, c, o.text, t)
  ELSE LET err == IF o.kind = "error" THEN o.text ELSE <<"Missing response text">>
           again(d) == [g |-> g, c |-> [d EXCEPT !.i = @ + 1, !.invocations = @ + 1,
                                                 !.activation = @ + 1]]
           c1 == [c EXCEPT !.switches = @ + 1]
       IN IF c.i = MaxAttempts - 1 \/ isRateLimitError(err) \/ isNotFoundError(err)
          THEN IF switchToNextModelResult(g)
               THEN LET g1 == switchToNextModel(g, t)
                    IN sendMessage(g1, Recurse(g1, c1), t)
               ELSE IF c.i = MaxAttempts - 1 THEN Record(g, c1, <<>>, t)
               ELSE again(c1)
          ELSE again(c)

\* llm.ts 341-357, on the settlement of agentWithTools.invoke
AfterAgent(g, c, o, t) ==
  IF o.kind = "text"
  THEN LET filteredText == filterResponse(o.text, t)
           g1 == getMessageHistory(g, c.conversationId)
           mh == g1.messageHistories[c.conversationId]
           g2 == [g1 EXCEPT !.arrays[mh] =
                    @ \o (IF c.message # <<>> THEN <<HumanMessage(c.message)>> ELSE <<>>)
                      \o <<AIMessage(filteredText)>>]
       IN Return(g2, [c EXCEPT !.messageHistory = mh, !.raw = o.text], filteredText)
  ELSE BasicModel([g EXCEPT !.agentWithTools = {}], c, t)

\* ------------------------------------------------------------ environment
\* what a backend can answer to an invocation
Outcomes(c) ==
  LET b == behaviour[c.model]
      texts == {<<"out">>, <<"out">> \o c.systemPrompt, <<"out">> \o SYSTEM_PROMPT}
                 \cup (IF SYSTEM_PROMPT # <<>> THEN {<<"out", DateTok(c.date)>>} ELSE {})
  IN (IF b \in {"ok", "flaky"} THEN {[kind |-> "text", text |-> x] : x \in texts} ELSE {})
     \cup (IF b \in {"empty", "flaky"} THEN {[kind |-> "text", text |-> <<>>]} ELSE {})
     \cup (IF b \in {"ratelimit", "flaky"} THEN {[kind |-> "error", text |-> <<"429">>]} ELSE {})
     \cup (IF b \in {"notfound", "flaky"} THEN {[kind |-> "error", text |-> <<"404">>]} ELSE {})
     \cup (IF b \in {"error", "flaky"} THEN {[kind |-> "error", text |-> <<"timeout">>]} ELSE {})

SystemPrompts == {<<"secret">>}
ConversationIds == {<<"shell", 1>>, <<"shell", 2>>}
UserNames == {<<"bob">>}
Messages == {<<>>, <<"hi">>, <<"inj">>}
Histories == {<<>>, <<[role |-> "model", content |-> <<"re">>],
                      [role |-> "user", content |-> <<"old">>]>>}

\* ------------------------------------------------------- text normalizer
IsTag(tok) == tok \in {"<p>", "</p>", "<br>"}
IsSpace(tok) == tok \in {"sp", "nl"}

\* /<br\s*\/?>(?![\s\S]*<br\s*\/?\s*>)/gi: a <br> that no <br> follows
MarkBr(html) ==
  [k \in 1..Len(html) |->
     IF html[k] = "<br>" /\ \A j \in (k + 1)..Len(html) : html[j] # "<br>"
     THEN "###BR###" ELSE html[k]]

\* $('body').text()
BodyText(html) == SelectSeq(html, LAMBDA tok : ~IsTag(tok))

\* .replace(/\s+/g, ' ')
RECURSIVE CollapseSpaces(_)
CollapseSpaces(text) ==
  IF text = <<>> THEN <<>>
  ELSE IF IsSpace(Head(text))
  THEN IF Len(text) > 1 /\ IsSpace(text[2]) THEN CollapseSpaces(Tail(text))
       ELSE <<"sp">> \o CollapseSpaces(Tail(text))
  ELSE <<Head(text)>> \o CollapseSpaces(Tail(text))

\* .replace(/###BR###/gi, '\n')
UnmarkBr(text) == [k \in 1..Len(text) |-> IF text[k] = "###BR###" THEN "nl" ELSE text[k]]

RECURSIVE TrimStart(_)
TrimStart(text) ==
  IF text # <<>> /\ IsSpace(Head(text)) THEN TrimStart(Tail(text)) ELSE text

RECURSIVE TrimEnd(_)
TrimEnd(text) ==
  IF text # <<>> /\ IsSpace(text[Len(text)]) THEN TrimEnd(SubSeq(text, 1, Len(text) - 1))
  ELSE text

Trim(text) == TrimEnd(TrimStart(text))

stripHtml(html) == Trim(UnmarkBr(CollapseSpaces(BodyText(MarkBr(html)))))

\* ------------------------------------------------------------- chat.ts
\* the files data/.systemprompt and data/.systemprompt_<value>; the value ".."
\* stands for "/../", whose path is the data directory itself
PromptFiles == [default |-> <<"base">>, alt |-> <<"altp">>]
PromptValues == {"alt", ".."}

isSystemPromptFile(value) == value \in PromptValues

getUserSystemPrompt(g, acct) == IF acct \in DOMAIN g.users THEN g.users[acct] ELSE ""

setUserSystemPrompt(g, acct, value) == [g EXCEPT !.users = (acct :> value) @@ @]

\* readFileSync of a directory throws
readSystemPromptThrows(value) == value = ".."

readSystemPrompt(value, pastPosts) ==
  LET basePrompt == IF value = "" THEN PromptFiles.default
                    ELSE IF value = "alt" THEN PromptFiles.alt
                    ELSE <<>>
  IN IF Trim(pastPosts) # <<>> THEN basePrompt \o <<"nl", "nl">> \o pastPosts ELSE basePrompt

MapHas(map, key) == \E k \in 1..Len(map) : map[k].key = key

MapGet(map, key) == map[CHOOSE k \in 1..Len(map) : map[k].key = key].value

\* a store that adds an entry on every set
MapSet_append(map, key, value) == Append(map, [key |-> key, value |-> value])

MapSet(map, key, value) ==
  IF MapHas(map, key)
  THEN [k \in 1..Len(map) |->
          IF map[k].key = key THEN [key |-> key, value |-> value] ELSE map[k]]
  ELSE Append(map, [key |-> key, value |-> value])

MapDelete(map, key) == SelectSeq(map, LAMBDA e : e.key # key)

clearConversationContext(g, accountId) ==
  [g EXCEPT !.conversationContexts = MapDelete(@, accountId)]

\* [...entries()].sort((a, b) => a[1].timestamp - b[1].timestamp) with ties
\* left in reverse order
RECURSIVE InsertByTimestamp_unstable(_, _)
InsertByTimestamp_unstable(sorted, e) ==
  IF sorted = <<>> THEN <<e>>
  ELSE IF sorted[Len(sorted)].value.timestamp < e.value.timestamp
  THEN Append(sorted, e)
  ELSE Append(InsertByTimestamp_unstable(SubSeq(sorted, 1, Len(sorted) - 1), e),
              sorted[Len(sorted)])

\* chat.ts 153-154: Array.prototype.sort is stable, entries of equal timestamp
\* stay in the order of the Map
RECURSIVE InsertByTimestamp(_, _)
InsertByTimestamp(sorted, e) ==
  IF sorted = <<>> THEN <<e>>
  ELSE IF sorted[Len(sorted)].value.timestamp <= e.value.timestamp
  THEN Append(sorted, e)
  ELSE Append(InsertByTimestamp(SubSeq(sorted, 1, Len(sorted) - 1), e),
              sorted[Len(sorted)])

RECURSIVE SortByTimestamp(_)
SortByTimestamp(entries) ==
  IF entries = <<>> THEN <<>>
  ELSE InsertByTimestamp(SortByTimestamp(SubSeq(entries, 1, Len(entries) - 1)),
                         entries[Len(entries)])

\* a sweep that also drops the entries of age exactly CONTEXT_EXPIRY_MS
isExpired_inclusive(context, t) == t - context.timestamp >= CONTEXT_EXPIRY_MS

\* chat.ts 148
isExpired(context, t) == t - context.timestamp > CONTEXT_EXPIRY_MS

\* chat.ts 145-161
cleanupConversationContexts(g, t) ==
  LET unexpired == SelectSeq(g.conversationContexts, LAMBDA e : ~isExpired(e.value, t))
  IN IF Len(unexpired) > MAX_CONTEXTS
     THEN LET sortedContexts == SortByTimestamp(unexpired)
              numberOfContextsToRemove == Len(unexpired) - MAX_CONTEXTS
              kept == SelectSeq(unexpired,
                        LAMBDA e : \A i \in 1..numberOfContextsToRemove :
                                     sortedContexts[i].key # e.key)
          IN [g EXCEPT !.conversationContexts = kept]
     ELSE [g EXCEPT !.conversationContexts = unexpired]

\* mastodon.js 487-507 run without a suspension in between: what one mention
\* of the account in the thread of rootStatusId does to the store
TouchSession(g, accountId, rootStatusId, t) ==
  IF ~MapHas(g.conversationContexts, accountId)
     \/ MapGet(g.conversationContexts, accountId).rootStatusId # rootStatusId
  THEN [g EXCEPT !.conversationContexts =
                   MapSet(@, accountId,
                          [id |-> <<accountId, rootStatusId>>, timestamp |-> t,
                           rootStatusId |-> rootStatusId, history |-> <<>>])]
  ELSE [g EXCEPT !.conversationContexts =
                   MapSet(@, accountId,
                          [MapGet(@, accountId) EXCEPT !.timestamp = t])]

isCommand(input) == LET m == Trim(input) IN m # <<>> /\ Head(m) \in {"!chat", "!x"}

isChatCommand(input) == LET m == Trim(input) IN m # <<>> /\ Head(m) = "!chat"

\* chat.ts 97-129: the state after the command and the text it returns
handleChatCommand(g, input, acct) ==
  IF Len(input) >= 3 /\ SubSeq(input, 1, 3) = <<"!chat", "sp", "systemprompt">>
  THEN LET value == Trim(SubSeq(input, 4, Len(input))) IN
       IF value = <<>> THEN [g |-> g, text |-> <<"show">>]
       ELSE IF value = <<"''">>
       THEN [g |-> clearConversationContext(setUserSystemPrompt(g, acct, ""), acct),
             text |-> <<"reset">>]
       ELSE IF Len(value) = 1 /\ isSystemPromptFile(value[1])
       THEN [g |-> clearConversationContext(setUserSystemPrompt(g, acct, value[1]), acct),
             text |-> <<"set">>]
       ELSE [g |-> g, text |-> <<"unknown">>]
  ELSE [g |-> g, text |-> <<"help">>]

\* ---------------------------------------------------------- mastodon.js
\* mastodon.js 361-367: the account name verifyAccountCredentials answered;
\* mentions are taken to arrive after it has answered
me_acct == "bot"
MeHandle == "@" \o me_acct
MeFullHandle == "@" \o me_acct \o "@dom"

Status(account, parent, content, visibility, t) ==
  [account |-> account, in_reply_to_id |-> parent, content |-> content,
   visibility |-> visibility, created_at |-> t]

\* the chain of ancestors of a status, oldest first
RECURSIVE AncestorsOf(_, _)
AncestorsOf(sts, id) ==
  LET parent == sts[id].in_reply_to_id IN
  IF parent = 0 THEN <<>> ELSE Append(AncestorsOf(sts, parent), parent)

Reverse(seq) == [k \in 1..Len(seq) |-> seq[Len(seq) + 1 - k]]

\* client.getStatusContext: it fails, or returns the ancestors in some order, or
\* returns none of them (the server no longer shows the parent)
ContextResults(sts, id) ==
  {[ok |-> FALSE, ancestors |-> <<>>]}
    \cup {[ok |-> TRUE, ancestors |-> a] :
            a \in {AncestorsOf(sts, id), Reverse(AncestorsOf(sts, id)), <<>>}}

\* a sort that puts the newest status first
RECURSIVE InsertSorted_newestFirst(_, _, _)
InsertSorted_newestFirst(sts, sorted, id) ==
  IF sorted = <<>> THEN <<id>>
  ELSE IF sts[sorted[Len(sorted)]].created_at >= sts[id].created_at
  THEN Append(sorted, id)
  ELSE Append(InsertSorted_newestFirst(sts, SubSeq(sorted, 1, Len(sorted) - 1), id),
              sorted[Len(sorted)])

\* [...ancestors].sort((a, b) => created_at(a) - created_at(b)): a stable sort
RECURSIVE InsertSorted(_, _, _)
InsertSorted(sts, sorted, id) ==
  IF sorted = <<>> THEN <<id>>
  ELSE IF sts[sorted[Len(sorted)]].created_at <= sts[id].created_at
  THEN Append(sorted, id)
  ELSE Append(InsertSorted(sts, SubSeq(sorted, 1, Len(sorted) - 1), id), sorted[Len(sorted)])

\* the ancestors taken in the order the server returned them
SortByCreatedAt_unsorted(sts, ids) == ids

RECURSIVE SortByCreatedAt(_, _)
SortByCreatedAt(sts, ids) ==
  IF ids = <<>> THEN <<>>
  ELSE InsertSorted(sts, SortByCreatedAt(sts, SubSeq(ids, 1, Len(ids) - 1)), ids[Len(ids)])

\* a transcript that tags every status as the other party's
HistoryItem_other(st) == [role |-> "user", content |-> stripHtml(st.content)]

HistoryItem(st) ==
  [role |-> IF st.account.acct = me_acct THEN "model" ELSE "user",
   content |-> stripHtml(st.content)]

RECURSIVE RemoveFirst(_, _)
RemoveFirst(text, tok) ==
  IF text = <<>> THEN <<>>
  ELSE IF Head(text) = tok THEN Tail(text)
  ELSE <<Head(text)>> \o RemoveFirst(Tail(text), tok)

\* content.includes(`@${me_acct} !`) || content.includes(`@${me_acct}@${domain} !`)
HasSkipMarker(content) ==
  \E k \in 1..(Len(content) - 2) :
    /\ content[k] \in {MeHandle, MeFullHandle}
    /\ content[k + 1] = "sp"
    /\ content[k + 2] \in {"!chat", "!x"}

IdleHandler ==
  [pc |-> "idle", status |-> 0, content |-> <<>>, rootStatusId |-> 0,
   isNewConversation |-> FALSE, conversationId |-> <<"", 0>>, history |-> <<>>,
   userSystemPrompt |-> "", response |-> <<>>,
   thread |-> "none",      \* how client.getStatusContext(status.id) of line 475 ended:
                           \* none (not called), failed, empty (no ancestors), ok
   built |-> "none"]       \* how buildConversationHistory ended, in the same words

\* a reply that is always given the handle of its addressee
postReply_always(g, h, content) ==
  LET st == g.statuses[g.handler[h].status]
      cleanedContent ==
        [k \in 1..Len(content) |->
           IF content[k] \in {MeHandle, MeFullHandle} THEN me_acct ELSE content[k]]
  IN [g EXCEPT !.posted = Append(@, [status |-> <<"@" \o st.account.acct, "sp">>
                                                  \o cleanedContent,
                                     in_reply_to_id |-> g.handler[h].status,
                                     visibility |-> st.visibility]),
               !.handler[h].pc = "post",
               !.handler[h].response = content]

\* mastodon.js 536-551 up to the call of client.postStatus
postReply(g, h, content) ==
  LET st == g.statuses[g.handler[h].status]
      cleanedContent ==
        [k \in 1..Len(content) |->
           IF content[k] \in {MeHandle, MeFullHandle} THEN me_acct ELSE content[k]]
      handle == "@" \o st.account.acct
      replyContent ==
        IF cleanedContent # <<>> /\ Head(cleanedContent) = handle THEN cleanedContent
        ELSE <<handle, "sp">> \o cleanedContent
  IN [g EXCEPT !.posted = Append(@, [status |-> replyContent,
                                     in_reply_to_id |-> g.handler[h].status,
                                     visibility |-> st.visibility]),
               !.handler[h].pc = "post",
               !.handler[h].response = content]

\* mastodon.js 522: the handler resumes when its sendMessage has returned
Resume(h, r) ==
  IF r.g.handler[h].pc = "send" /\ r.c.pc = "done"
  THEN [g |-> postReply(r.g, h, r.c.ret), c |-> r.c]
  ELSE r

\* a dispatcher that passes the text of the mention with every call
CallSendMessage_withText(g, h, pastPosts, t) ==
  LET hd == g.handler[h]
      st == g.statuses[hd.status]
  IN IF readSystemPromptThrows(hd.userSystemPrompt)
     THEN [g |-> [g EXCEPT !.handler[h].pc = "failed"], c |-> IdleCall]
     ELSE LET systemPrompt == readSystemPrompt(hd.userSystemPrompt, pastPosts)
              c == NewCall(g, systemPrompt, hd.conversationId, <<st.account.acct>>,
                           hd.content,
                           IF hd.isNewConversation THEN hd.history ELSE <<>>)
          IN Resume(h, sendMessage([g EXCEPT !.handler[h].pc = "send"], c, t))

\* mastodon.js 508-521, after fetchMyPastPosts has returned
CallSendMessage(g, h, pastPosts, t) ==
  LET hd == g.handler[h]
      st == g.statuses[hd.status]
  IN IF readSystemPromptThrows(hd.userSystemPrompt)
     THEN [g |-> [g EXCEPT !.handler[h].pc = "failed"], c |-> IdleCall]
     ELSE LET systemPrompt == readSystemPrompt(hd.userSystemPrompt, pastPosts)
              c == NewCall(g, systemPrompt, hd.conversationId, <<st.account.acct>>,
                           IF hd.isNewConversation THEN <<>> ELSE hd.content,
                           IF hd.isNewConversation THEN hd.history ELSE <<>>)
          IN Resume(h, sendMessage([g EXCEPT !.handler[h].pc = "send"], c, t))

\* mastodon.js 508-511: up to the suspension in fetchMyPastPosts
BeforePastPosts(g, h) ==
  [g EXCEPT !.handler[h].userSystemPrompt =
              getUserSystemPrompt(g, g.statuses[g.handler[h].status].account.acct),
            !.handler[h].pc = "posts"]

\* a handler that leaves a session it finds where it is
StoreNewContext_kept(g, h, history, t) ==
  LET hd == g.handler[h]
      accountId == g.statuses[hd.status].account.id
      g1 == [g EXCEPT !.conversationContexts =
                        IF MapHas(@, accountId) THEN @
                        ELSE MapSet(@, accountId,
                                    [id |-> hd.conversationId, timestamp |-> t,
                                     rootStatusId |-> hd.rootStatusId,
                                     history |-> history]),
                      !.handler[h].history = history]
  IN BeforePastPosts(g1, h)

\* mastodon.js 495-500, after buildConversationHistory has returned
StoreNewContext(g, h, history, t) ==
  LET hd == g.handler[h]
      accountId == g.statuses[hd.status].account.id
      g1 == [g EXCEPT !.conversationContexts =
                        MapSet(@, accountId,
                               [id |-> hd.conversationId, timestamp |-> t,
                                rootStatusId |-> hd.rootStatusId, history |-> history]),
                      !.handler[h].history = history]
  IN BeforePastPosts(g1, h)

\* a lookup that refreshes the session with a zero timestamp
LookupSession_epoch(g, h, rootStatusId, t) ==
  LET hd == g.handler[h]
      accountId == g.statuses[hd.status].account.id
      has == MapHas(g.conversationContexts, accountId)
  IN IF ~has \/ MapGet(g.conversationContexts, accountId).rootStatusId # rootStatusId
     THEN [g EXCEPT !.handler[h].rootStatusId = rootStatusId,
                    !.handler[h].isNewConversation = TRUE,
                    !.handler[h].conversationId = <<accountId, rootStatusId>>,
                    !.handler[h].pc = "history"]
     ELSE LET ctx == MapGet(g.conversationContexts, accountId) IN
          BeforePastPosts(
            [g EXCEPT !.handler[h].rootStatusId = rootStatusId,
                      !.handler[h].conversationId = ctx.id,
                      !.conversationContexts =
                         MapSet(@, accountId, [ctx EXCEPT !.timestamp = 0])], h)

\* mastodon.js 487-507: the session lookup
LookupSession(g, h, rootStatusId, t) ==
  LET hd == g.handler[h]
      accountId == g.statuses[hd.status].account.id
      has == MapHas(g.conversationContexts, accountId)
  IN IF ~has \/ MapGet(g.conversationContexts, accountId).rootStatusId # rootStatusId
     THEN [g EXCEPT !.handler[h].rootStatusId = rootStatusId,
                    !.handler[h].isNewConversation = TRUE,
                    !.handler[h].conversationId = <<accountId, rootStatusId>>,
                    !.handler[h].pc = "history"]
     ELSE LET ctx == MapGet(g.conversationContexts, accountId) IN
          BeforePastPosts(
            [g EXCEPT !.handler[h].rootStatusId = rootStatusId,
                      !.handler[h].conversationId = ctx.id,
                      !.conversationContexts =
                         MapSet(@, accountId, [ctx EXCEPT !.timestamp = t])], h)

\* mastodon.js 447-473: handleMention up to its first suspension
handleMention(g, h, id, t) ==
  LET st == g.statuses[id]
      content == stripHtml(st.content)
      g1 == [g EXCEPT !.handler[h] = [IdleHandler EXCEPT !.status = id, !.content = content]]
  IN IF HasSkipMarker(content)
     THEN LET message == Trim(RemoveFirst(RemoveFirst(content, MeFullHandle), MeHandle)) IN
          IF isCommand(message) /\ isChatCommand(message)
          THEN LET r == handleChatCommand(g1, message, st.account.acct) IN
               postReply(r.g, h, r.text)
          ELSE [g1 EXCEPT !.handler[h].pc = "skipped"]
     ELSE IF st.in_reply_to_id # 0 THEN [g1 EXCEPT !.handler[h].pc = "root"]
     ELSE LookupSession(g1, h, id, t)


Bot == [id |-> "id0", acct |-> me_acct]
\* the conversants; they are interchangeable, so the first mention is alice's
Accounts == {[id |-> "id1", acct |-> "alice"], [id |-> "id2", acct |-> "bob"]}
MayPost(sts, a) ==
  a.acct = "alice" \/ \E k \in 1..Len(sts) : sts[k].account.acct = "alice"
\* a thread is opened in public and answered in private
VisibilityOf(parent) == IF parent = 0 THEN "public" ELSE "direct"
Contents ==
  {<<"<p>", MeHandle, "sp", "hi", "</p>">>,
   <<"<p>", MeHandle, "sp", "inj", "</p>">>,
   <<"<p>", MeHandle, "sp", "!chat", "sp", "systemprompt", "sp", "..", "</p>">>,
   <<"<p>", MeHandle, "sp", "!x", "</p>">>}

\* ---------------------------------------------------------------- actions
G ==
  [currentModelIndex |-> currentModelIndex, modelLastUsed |-> modelLastUsed,
   modelInstances |-> modelInstances, agentWithTools |-> agentWithTools,
   isInitialized |-> isInitialized, mcpClient |-> mcpClient,
   messageHistories |-> messageHistories, arrays |-> arrays,
   statuses |-> statuses, handler |-> handler,
   conversationContexts |-> conversationContexts, users |-> users, posted |-> posted]

\* arrays no longer referenced are collected
Live(g, calls) ==
  {g.messageHistories[id] : id \in DOMAIN g.messageHistories}
    \cup {calls[s].messageHistory : s \in DOMAIN calls}

CommitGlobals(g, calls) ==
  LET live == Live(g, calls) \cap DOMAIN g.arrays IN
  /\ call' = calls
  /\ currentModelIndex' = g.currentModelIndex
  /\ modelLastUsed' = g.modelLastUsed
  /\ modelInstances' = g.modelInstances
  /\ agentWithTools' = g.agentWithTools
  /\ isInitialized' = g.isInitialized
  /\ mcpClient' = g.mcpClient
  /\ messageHistories' = g.messageHistories
  /\ arrays' = [a \in live |-> g.arrays[a]]
  /\ statuses' = g.statuses
  /\ handler' = g.handler
  /\ conversationContexts' = g.conversationContexts
  /\ users' = g.users
  /\ posted' = g.posted

Commit(s, r) == CommitGlobals(r.g, [call EXCEPT ![s] = r.c])

\* a caller (the shell, a test) calls sendMessage and awaits it
DirectCall ==
  /\ ncalls < MaxCalls
  /\ call[1].pc \in {"idle", "done"}
  /\ \E sp \in SystemPrompts, id \in ConversationIds, un \in UserNames,
        m \in Messages, h \in Histories :
       Commit(1, sendMessage(G, NewCall(G, sp, id, un, m, h), now))
  /\ ncalls' = ncalls + 1
  /\ UNCHANGED <<configVars, feedVars, lastOp, norm, now>>

\* mcp.ts 74-82: getTools settles, initializeMcp returns the client
McpReturn(s) ==
  /\ call[s].pc = "mcp"
  /\ Commit(s, Resume(s, AfterInitializeMcp([G EXCEPT !.isInitialized = TRUE], call[s], now)))
  /\ UNCHANGED <<configVars, feedVars, lastOp, norm, now, ncalls>>

AgentReturn(s) ==
  /\ call[s].pc = "agent"
  /\ \E o \in Outcomes(call[s]) : Commit(s, Resume(s, AfterAgent(G, call[s], o, now)))
  /\ UNCHANGED <<configVars, feedVars, lastOp, norm, now, ncalls>>

InvokeReturn(s) ==
  /\ call[s].pc = "invoke"
  /\ \E o \in Outcomes(call[s]) : Commit(s, Resume(s, AfterInvoke(G, call[s], o, now)))
  /\ UNCHANGED <<configVars, feedVars, lastOp, norm, now, ncalls>>

\* the clock is read in minutes: it advances between mentions, not within one
Tick ==
  /\ now < MaxTime
  /\ \A h \in Slots : handler[h].pc \in {"idle", "done", "failed", "skipped"}
  /\ now' = now + 1
  /\ UNCHANGED <<configVars, feedVars, lastOp, norm, engineVars, call, ncalls, dispatchVars>>

\* the stream delivers a mention: the status exists, the handler starts
Notify(h) ==
  /\ handler[h].pc = "idle"
  /\ \A k \in 1..(h - 1) : handler[k].pc # "idle"
  /\ \E a \in Accounts, parent \in 0..Len(statuses), content \in Contents :
       /\ MayPost(statuses, a)
       /\ LET id == Len(statuses) + 1
              g == [G EXCEPT !.statuses =
                      Append(@, Status(a, parent, content, VisibilityOf(parent), id))]
          IN CommitGlobals(handleMention(g, h, id, now), call)
  /\ UNCHANGED <<configVars, feedVars, lastOp, norm, now, ncalls>>

\* mastodon.js 475-486: getStatusContext settles, the root is resolved
RootReturn(h) ==
  /\ handler[h].pc = "root"
  /\ \E res \in ContextResults(statuses, handler[h].status) :
       LET sortedAncestors == SortByCreatedAt(statuses, res.ancestors)
           rootStatusId == IF res.ok /\ Len(res.ancestors) > 0 THEN sortedAncestors[1]
                           ELSE handler[h].status
           g == [G EXCEPT !.handler[h].thread =
                   IF ~res.ok THEN "failed"
                   ELSE IF res.ancestors = <<>> THEN "empty" ELSE "ok"]
       IN CommitGlobals(LookupSession(g, h, rootStatusId, now), call)
  /\ UNCHANGED <<configVars, feedVars, lastOp, norm, now, ncalls>>

\* mastodon.js 414-445 and 495-500: buildConversationHistory returns; its two
\* fetches touch no state of the process, so they settle as one step
HistoryReturn(h) ==
  /\ handler[h].pc = "history"
  /\ \E res \in ContextResults(statuses, handler[h].status), ok \in BOOLEAN :
       LET sortedAncestors == SortByCreatedAt(statuses, res.ancestors)
           history == IF res.ok /\ ok
                      THEN [k \in 1..Len(sortedAncestors) |->
                              HistoryItem(statuses[sortedAncestors[k]])]
                             \o <<HistoryItem(statuses[handler[h].status])>>
                      ELSE <<>>
           g == [G EXCEPT !.handler[h].built =
                   IF ~(res.ok /\ ok) THEN "failed"
                   ELSE IF res.ancestors = <<>> THEN "empty" ELSE "ok"]
       IN CommitGlobals(StoreNewContext(g, h, history, now), call)
  /\ UNCHANGED <<configVars, feedVars, lastOp, norm, now, ncalls>>

\* mastodon.js 565-583 and 511-521: fetchMyPastPosts settles, sendMessage is called
PastPostsReturn(h) ==
  /\ handler[h].pc = "posts"
  /\ \E pastPosts \in {<<>>} \cup
                      (IF \E k \in 1..Len(statuses) : statuses[k].account.acct = me_acct
                       THEN {<<"past">>} ELSE {}) :
       Commit(h, CallSendMessage(G, h, pastPosts, now))
  /\ UNCHANGED <<configVars, feedVars, lastOp, norm, now, ncalls>>

\* mastodon.js 543-550: client.postStatus settles and the reply is a status
\* (a failed post is logged and leaves no status to reply to)
PostReturn(h) ==
  /\ handler[h].pc = "post"
  /\ LET p == posted[CHOOSE k \in 1..Len(posted) :
                       posted[k].in_reply_to_id = handler[h].status]
         sts == Append(statuses, Status(Bot, p.in_reply_to_id,
                                        <<"<p>">> \o p.status \o <<"</p>">>,
                                        p.visibility, Len(statuses) + 1))
     IN CommitGlobals([G EXCEPT !.statuses = sts, !.handler[h].pc = "done"], call)
  /\ UNCHANGED <<configVars, feedVars, lastOp, norm, now, ncalls>>

InitState ==
  /\ now = 0
  /\ currentModelIndex = 0
  /\ modelLastUsed = [timestamp |-> 0, modelIndex |-> 0]
  /\ modelInstances = <<>>
  /\ agentWithTools = {}
  /\ isInitialized = FALSE
  /\ mcpClient = FALSE
  /\ messageHistories = <<>>
  /\ arrays = <<>>
  /\ call = [s \in Slots |-> IdleCall]
  /\ ncalls = 0
  /\ statuses = <<>>
  /\ handler = [s \in Slots |-> IdleHandler]
  /\ conversationContexts = <<>>
  /\ users = <<>>
  /\ posted = <<>>
  /\ lastOp = [op |-> "none", before |-> <<>>]
  /\ stream = 0
  /\ sockets = <<>>
  /\ timers = <<>>
  /\ feed = [connects |-> 0, events |-> 0, failures |-> 0]

\* ------------------------------------------------- the session store alone
\* the conversants of SpecStore, one more than a sweep keeps
StoreAccountIds == 1..(MAX_CONTEXTS + 1)
\* the threads they write in
StoreRoots == {1, 2}

\* a mention has been handled up to its entry in the store
StoreMention ==
  /\ \E accountId \in StoreAccountIds, rootStatusId \in StoreRoots :
       CommitGlobals(TouchSession(G, accountId, rootStatusId, now), call)
  /\ lastOp' = [op |-> "mention", before |-> <<>>]
  /\ UNCHANGED <<configVars, feedVars, norm, now, ncalls>>

\* chat.ts 163: the interval timer fires
Sweep ==
  /\ CommitGlobals(cleanupConversationContexts(G, now), call)
  /\ lastOp' = [op |-> "sweep", before |-> conversationContexts]
  /\ UNCHANGED <<configVars, feedVars, norm, now, ncalls>>

StoreTick ==
  /\ now < MaxClock
  /\ now' = now + 1
  /\ lastOp' = [op |-> "tick", before |-> <<>>]
  /\ UNCHANGED <<configVars, feedVars, norm, engineVars, call, ncalls, dispatchVars>>

InitStore ==
  /\ NModels = 1
  /\ behaviour = [m \in {0} |-> "ok"]
  /\ SYSTEM_PROMPT = <<>>
  /\ mcpConfigured = FALSE
  /\ norm = <<>>
  /\ InitState

NextStore == StoreMention \/ Sweep \/ StoreTick

SpecStore == InitStore /\ [][NextStore]_vars

\* ------------------------------------------------ the streaming connection
F == [stream |-> stream, sockets |-> sockets, timers |-> timers, feed |-> feed]

\* a reconnect that arms its timer only when a stream was open
reconnect_whenOpen(f) ==
  IF f.stream # 0
  THEN [f EXCEPT !.sockets[f.stream].stopped = TRUE, !.stream = 0,
                 !.timers = Append(@, ReconnectDelay)]
  ELSE f

\* mastodon.js 399-412: stream.stop() (a throw is caught), stream = null,
\* setTimeout(connect, 5000)
reconnect(f) ==
  LET f1 == IF f.stream # 0
            THEN [f EXCEPT !.sockets[f.stream].stopped = TRUE, !.stream = 0]
            ELSE f
  IN [f1 EXCEPT !.timers = Append(@, ReconnectDelay)]

\* mastodon.js 363-397: client.userSocket() returns a stream, whose listeners
\* are attached, or throws
connect(f, ok) ==
  LET id == f.feed.connects + 1
      f1 == [f EXCEPT !.feed.connects = id]
  IN IF ok
     THEN [f1 EXCEPT !.stream = id,
                     !.sockets = (id :> [stopped |-> FALSE, emitted |-> {}]) @@ @]
     ELSE reconnect([f1 EXCEPT !.feed.failures = @ + 1])

\* a stream that has emitted 'close' emits nothing more
Emit(f, id, event) ==
  LET f1 == [f EXCEPT !.sockets[id].emitted = @ \cup {event}, !.feed.events = @ + 1]
      f2 == reconnect(f1)
  IN IF event = "close"
     THEN [f2 EXCEPT !.sockets = [k \in DOMAIN f2.sockets \ {id} |-> f2.sockets[k]]]
     ELSE f2

CommitFeed(f) ==
  /\ stream' = f.stream
  /\ sockets' = f.sockets
  /\ timers' = f.timers
  /\ feed' = f.feed

ConnectOutcomes(f) == {TRUE} \cup (IF f.feed.failures < MaxFailures THEN {FALSE} ELSE {})

\* the entry point calls connect()
Start ==
  /\ feed.connects = 0
  /\ \E ok \in ConnectOutcomes(F) : CommitFeed(connect(F, ok))
  /\ UNCHANGED <<configVars, lastOp, norm, now, engineVars, call, ncalls, dispatchVars>>

\* mastodon.js 408-411: a reconnect timer fires
TimerFires ==
  /\ timers # <<>>
  /\ \E ok \in ConnectOutcomes(F) :
       CommitFeed(connect([F EXCEPT !.timers = Tail(@)], ok))
  /\ UNCHANGED <<configVars, lastOp, norm, now, engineVars, call, ncalls, dispatchVars>>

\* mastodon.js 379-382: a stream emits 'error'
StreamError(id) ==
  /\ id \in DOMAIN sockets
  /\ sockets[id].emitted = {}
  /\ feed.events < MaxEvents
  /\ CommitFeed(Emit(F, id, "error"))
  /\ UNCHANGED <<configVars, lastOp, norm, now, engineVars, call, ncalls, dispatchVars>>

\* mastodon.js 383-386: a stream emits 'close'
StreamClose(id) ==
  /\ id \in DOMAIN sockets
  /\ feed.events < MaxEvents
  /\ CommitFeed(Emit(F, id, "close"))
  /\ UNCHANGED <<configVars, lastOp, norm, now, engineVars, call, ncalls, dispatchVars>>

SocketIds == 1..(MaxEvents + MaxFailures + 1)

InitStream ==
  /\ NModels = 1
  /\ behaviour = [m \in {0} |-> "ok"]
  /\ SYSTEM_PROMPT = <<>>
  /\ mcpConfigured = FALSE
  /\ norm = <<>>
  /\ InitState

NextStream ==
  \/ Start
  \/ TimerFires
  \/ \E id \in SocketIds : StreamError(id) \/ StreamClose(id)

\* the event loop runs every timer callback that is due
SpecStream == InitStream /\ [][NextStream]_vars /\ WF_vars(TimerFires)

\* ---------------------------------------------------- stripHtml alone
\* the tokens of a status content: words, white space, tags, and the marker
\* text itself, which a user can type
Tokens == {"a", "b", "sp", "nl", "<br>", "<p>", "###BR###"}

RECURSIVE Texts(_)
Texts(n) ==
  IF n = 0 THEN {<<>>}
  ELSE Texts(n - 1) \cup {Append(t, tok) : t \in Texts(n - 1), tok \in Tokens}

\* stripHtml is applied to the last result
Normalize ==
  /\ Len(norm) <= MaxApplications
  /\ norm' = Append(norm, stripHtml(norm[Len(norm)]))
  /\ UNCHANGED <<configVars, feedVars, lastOp, now, engineVars, call, ncalls, dispatchVars>>

InitText ==
  /\ NModels = 1
  /\ behaviour = [m \in {0} |-> "ok"]
  /\ SYSTEM_PROMPT = <<>>
  /\ mcpConfigured = FALSE
  /\ norm \in {<<html>> : html \in Texts(MaxLen)}
  /\ InitState

NextText == Normalize

SpecText == InitText /\ [][NextText]_vars

\* the bot when the second mention may carry the skip marker anywhere in its text
MarkedContents ==
  {<<"<p>", MeHandle, "sp", "hi", "</p>">>,
   <<"<p>", MeHandle, "sp", "!chat", "sp", "help", "</p>">>,
   <<"<p>", MeHandle, "sp", "!chat", "sp", "systemprompt", "sp", "..", "</p>">>,
   <<"<p>", MeHandle, "sp", "!x", "</p>">>,
   <<"<p>", "hi", "sp", MeHandle, "sp", "!chat", "sp", "help", "</p>">>,
   <<"<p>", "!chat", "sp", "help", "sp", MeHandle, "sp", "!x", "</p>">>}

NotifyMarked(h) ==
  /\ handler[h].pc = "idle"
  /\ \A k \in 1..(h - 1) : handler[k].pc # "idle"
  /\ \E a \in Accounts, parent \in 0..Len(statuses),
        content \in IF h = 1 THEN {<<"<p>", MeHandle, "sp", "hi", "</p>">>}
                    ELSE MarkedContents :
       /\ MayPost(statuses, a)
       /\ LET id == Len(statuses) + 1
              g == [G EXCEPT !.statuses =
                      Append(@, Status(a, parent, content, VisibilityOf(parent), id))]
          IN CommitGlobals(handleMention(g, h, id, now), call)
  /\ UNCHANGED <<configVars, feedVars, lastOp, norm, now, ncalls>>

InitSkip ==
  /\ NModels = 1
  /\ behaviour = (0 :> "ok")
  /\ SYSTEM_PROMPT = <<>>
  /\ mcpConfigured = FALSE
  /\ norm = <<>>
  /\ InitState

NextSkip ==
  \E h \in Slots :
    \/ NotifyMarked(h)
    \/ RootReturn(h)
    \/ HistoryReturn(h)
    \/ PastPostsReturn(h)
    \/ InvokeReturn(h)
    \/ PostReturn(h)

SpecSkip == InitSkip /\ [][NextSkip]_vars

\* postReply on its own: a mention is waiting for the text to answer it with
ReplyTokens == {"out", "sp", MeHandle, MeFullHandle, "@alice"}
ReplyTexts == UNION {[1..n -> ReplyTokens] : n \in 0..MaxReply}

InitReply ==
  /\ NModels = 1
  /\ behaviour = (0 :> "ok")
  /\ SYSTEM_PROMPT = <<>>
  /\ mcpConfigured = FALSE
  /\ norm = <<>>
  /\ now = 0
  /\ currentModelIndex = 0
  /\ modelLastUsed = [timestamp |-> 0, modelIndex |-> 0]
  /\ modelInstances = <<>>
  /\ agentWithTools = {}
  /\ isInitialized = FALSE
  /\ mcpClient = FALSE
  /\ messageHistories = <<>>
  /\ arrays = <<>>
  /\ call = [s \in Slots |-> IdleCall]
  /\ ncalls = 0
  /\ \E a \in Accounts, visibility \in {"public", "unlisted", "private", "direct"} :
       statuses = <<Status(a, 0, <<"<p>", MeHandle, "sp", "hi", "</p>">>, visibility, 1)>>
  /\ handler = [s \in Slots |->
                  IF s = 1 THEN [IdleHandler EXCEPT !.pc = "send", !.status = 1,
                                                    !.content = <<MeHandle, "sp", "hi">>]
                  ELSE IdleHandler]
  /\ conversationContexts = <<>>
  /\ users = <<>>
  /\ posted = <<>>
  /\ lastOp = [op |-> "none", before |-> <<>>]
  /\ stream = 0
  /\ sockets = <<>>
  /\ timers = <<>>
  /\ feed = [connects |-> 0, events |-> 0, failures |-> 0]

\* mastodon.js 522: sendMessage has returned some text
Reply ==
  /\ handler[1].pc = "send"
  /\ \E content \in ReplyTexts : CommitGlobals(postReply(G, 1, content), call)
  /\ UNCHANGED <<configVars, feedVars, lastOp, norm, now, ncalls>>

NextReply == Reply \/ PostReturn(1)

SpecReply == InitReply /\ [][NextReply]_vars

\* sendMessage on its own, called one call at a time
InitEngine ==
  /\ NModels \in 1..MaxModels
  /\ behaviour \in [0..(NModels - 1) -> Behaviours \ {"flaky"}]
  /\ SYSTEM_PROMPT \in {<<>>, <<"secret">>}
  /\ mcpConfigured \in BOOLEAN
  /\ norm = <<>>
  /\ InitState

NextEngine ==
  \/ DirectCall
  \/ McpReturn(1)
  \/ AgentReturn(1)
  \/ InvokeReturn(1)
  \/ Tick

SpecEngine == InitEngine /\ [][NextEngine]_vars

\* the bot: mentions are handled as the stream delivers them
Init ==
  /\ NModels \in 1..MaxModels
  /\ behaviour \in {b \in [0..(NModels - 1) -> {"ok", "ratelimit"}] :
                      \A m \in 1..(NModels - 1) : b[m] = "ok"}
  /\ SYSTEM_PROMPT = <<>>
  /\ mcpConfigured = FALSE
  /\ norm = <<>>
  /\ InitState

Next ==
  \/ \E h \in Slots :
       \/ Notify(h)
       \/ RootReturn(h)
       \/ HistoryReturn(h)
       \/ PastPostsReturn(h)
       \/ InvokeReturn(h)
       \/ PostReturn(h)
  \/ Tick

Spec == Init /\ [][Next]_vars

\* ------------------------------------------------------------- properties
Failing == {"empty", "ratelimit", "notfound", "error"}

\* the handler has looked its session up (mastodon.js 487-507)
Resolved(h) == handler[h].rootStatusId # 0

AccountOf(h) == statuses[handler[h].status].account

\* C1: every mention without the skip marker ends with a reply handed to
\* client.postStatus, and the reply text is non-empty and is the backend's
\* output or ERROR_MESSAGE; no exception leaves the mention unanswered.
C1_EveryMentionAnswered ==
  \A h \in Slots :
    (handler[h].pc \in {"post", "done", "failed"} /\ ~HasSkipMarker(handler[h].content))
      => /\ handler[h].pc # "failed"
         /\ handler[h].response # <<>>
         /\ handler[h].response \in {ERROR_MESSAGE, call[h].raw}

\* C2: with one model whose backend fails on every invocation, sendMessage
\* returns ERROR_MESSAGE.
C2_SingleFailingBackend ==
  (NModels = 1 /\ behaviour[0] \in Failing /\ call[1].pc = "done")
    => call[1].ret = ERROR_MESSAGE

\* C3: with any non-empty list of models whose backends all fail on every
\* invocation, whatever the error class, sendMessage returns ERROR_MESSAGE.
C3_AllBackendsFailing ==
  ((\A m \in 0..(NModels - 1) : behaviour[m] \in Failing) /\ call[1].pc = "done")
    => call[1].ret = ERROR_MESSAGE

\* C4: with two models, model 0 always answering with a rate-limit error and
\* model 1 succeeding, a sendMessage of a message that passes the safety guard,
\* started at currentModelIndex 0, returns the filtered output of model 1 and
\* leaves currentModelIndex at 1.  (It fails when an agent built on model 1
\* by an earlier call answers after the router has gone back to model 0.)
C4_Fallback ==
  (/\ NModels = 2 /\ behaviour[0] = "ratelimit" /\ behaviour[1] = "ok"
   /\ call[1].pc = "done" /\ call[1].index0 = 0 /\ isMessageSafe(call[1].message))
    => /\ call[1].model = 1
       /\ call[1].raw # <<>>
       /\ call[1].ret \in {filterResponse(call[1].raw, t) : t \in 0..MaxTime}
       /\ currentModelIndex = 1

\* the first call of the process falls back from model 0 to model 1
C4_Witness ==
  /\ NModels = 2 /\ behaviour[0] = "ratelimit" /\ behaviour[1] = "ok"
  /\ call[1].pc = "done" /\ call[1].index0 = 0 /\ isMessageSafe(call[1].message)
  /\ call[1].invocations = 2
  /\ call[1].ret = <<"out">>
  /\ currentModelIndex = 1

\* C5: sendMessage called with a message that matches a blocked pattern returns
\* ERROR_MESSAGE and invokes no backend during the call.
C5_UnsafeShortCircuit ==
  (call[1].pc = "done" /\ Matches(call[1].message, BLOCKED_PATTERNS))
    => call[1].ret = ERROR_MESSAGE /\ call[1].invocations = 0

C5_Witness ==
  /\ call[1].pc = "done" /\ Matches(call[1].message, BLOCKED_PATTERNS)
  /\ call[1].ret = ERROR_MESSAGE /\ call[1].invocations = 0
  /\ ncalls = 2 /\ modelInstances # <<>>

\* C6: the text of a mention that matches a blocked pattern, in a new or in a
\* continued conversation, is in no message list sent to a backend, and the
\* reply is ERROR_MESSAGE.
C6_UnsafeMentionNeverSent ==
  \A h \in Slots :
    Matches(handler[h].content, BLOCKED_PATTERNS) =>
      /\ call[h].pc \in {"invoke", "agent"} =>
           \A k \in 1..Len(call[h].inputMessages) :
             ~Includes(call[h].inputMessages[k].content, handler[h].content)
      /\ handler[h].pc \in {"post", "done"} => handler[h].response = ERROR_MESSAGE

\* C7: when the systemPrompt a sendMessage was called with is non-empty and the
\* backend's response contains it, the value returned is ERROR_MESSAGE, and so
\* is the model turn recorded in the history.
C7_LeakFiltered ==
  (/\ call[1].pc = "done" /\ call[1].systemPrompt # <<>>
   /\ Includes(call[1].raw, call[1].systemPrompt))
    => /\ call[1].ret = ERROR_MESSAGE
       /\ LET a == arrays[call[1].messageHistory]
          IN a # <<>> /\ a[Len(a)] = AIMessage(ERROR_MESSAGE)

\* C8: of two mentions of one conversant, in order of receipt, that resolve to
\* the same root, both have the same conversation id and the second is not a
\* new conversation; when they resolve to different roots the second has a
\* different id, made of its account id and root, and is a new conversation.
C8_SessionKeyContinuity ==
  \A h1, h2 \in Slots :
    (h1 < h2 /\ Resolved(h1) /\ Resolved(h2) /\ AccountOf(h1) = AccountOf(h2))
      => IF handler[h1].rootStatusId = handler[h2].rootStatusId
         THEN /\ handler[h2].conversationId = handler[h1].conversationId
              /\ ~handler[h2].isNewConversation
         ELSE /\ handler[h2].conversationId # handler[h1].conversationId
              /\ handler[h2].conversationId =
                   <<AccountOf(h2).id, handler[h2].rootStatusId>>
              /\ handler[h2].isNewConversation

\* C9: after every step conversationContexts holds at most one entry per account
\* id, and when a handler stores the session of a new root, the one entry of its
\* account is that session (a session of another root is gone).
C9_OneSessionPerConversant ==
  [][/\ \A i, j \in 1..Len(conversationContexts') :
          i # j => conversationContexts'[i].key # conversationContexts'[j].key
     /\ \A h \in Slots :
          (handler[h].pc = "history" /\ handler'[h].pc # "history") =>
            LET accountId == AccountOf(h).id
                entries == {k \in 1..Len(conversationContexts') :
                              conversationContexts'[k].key = accountId}
            IN /\ Cardinality(entries) = 1
               /\ \A k \in entries :
                    /\ conversationContexts'[k].value.id = handler[h].conversationId
                    /\ conversationContexts'[k].value.rootStatusId = handler[h].rootStatusId
    ]_vars

C9_Witness ==
  /\ Resolved(1) /\ Resolved(2)
  /\ AccountOf(1) = AccountOf(2)
  /\ handler[1].pc = "done" /\ handler[2].pc = "posts"
  /\ handler[1].isNewConversation /\ handler[2].isNewConversation
  /\ handler[1].rootStatusId # handler[2].rootStatusId
  /\ Len(conversationContexts) = 1
  /\ conversationContexts[1].value.rootStatusId = handler[2].rootStatusId

\* C10: the replies to two mentions of one conversant in one thread are handed
\* to client.postStatus in the order the mentions were received.
C10_RepliesInOrderOfReceipt ==
  \A h1, h2 \in Slots :
    (h1 < h2 /\ Resolved(h1) /\ Resolved(h2) /\ AccountOf(h1) = AccountOf(h2)
     /\ handler[h1].rootStatusId = handler[h2].rootStatusId)
      => \A j, k \in 1..Len(posted) :
           (posted[j].in_reply_to_id = handler[h1].status
            /\ posted[k].in_reply_to_id = handler[h2].status) => j < k

\* C11: at most one sendMessage call is in progress for one conversation id
\* (two mentions of one session are never both between their session lookup
\* and their reply with a backend call under way).
C11_OneCallPerConversation ==
  \A h1, h2 \in Slots :
    (/\ h1 # h2
     /\ call[h1].pc \in {"mcp", "agent", "invoke"}
     /\ call[h2].pc \in {"mcp", "agent", "invoke"})
      => call[h1].conversationId # call[h2].conversationId

\* C12: in every reachable state conversationContexts holds at most
\* MAX_CONTEXTS sessions, whatever mentions of distinct conversants and sweeps
\* have happened.
C12_StoreWithinCapacity == Len(conversationContexts) <= MAX_CONTEXTS

IsEntryOf(e, map) == \E k \in 1..Len(map) : map[k] = e

\* the entries a sweep at time t does not expire
Unexpired(map, t) ==
  {k \in 1..Len(map) : t - map[k].value.timestamp <= CONTEXT_EXPIRY_MS}

\* C13: right after cleanupConversationContexts no entry is older than
\* CONTEXT_EXPIRY_MS, there are at most MAX_CONTEXTS entries, an entry of age
\* up to and including CONTEXT_EXPIRY_MS is removed only when the unexpired
\* entries exceed MAX_CONTEXTS, and no entry removed for capacity has a
\* timestamp greater than that of an entry kept.
C13_SweepPostcondition ==
  lastOp.op = "sweep" =>
    LET before == lastOp.before
        after == conversationContexts
    IN /\ \A k \in 1..Len(after) : now - after[k].value.timestamp <= CONTEXT_EXPIRY_MS
       /\ Len(after) <= MAX_CONTEXTS
       /\ \A k \in 1..Len(after) : IsEntryOf(after[k], before)
       /\ \A i \in Unexpired(before, now) :
            ~IsEntryOf(before[i], after) =>
              /\ Cardinality(Unexpired(before, now)) > MAX_CONTEXTS
              /\ Len(after) = MAX_CONTEXTS
              /\ \A k \in 1..Len(after) :
                   before[i].value.timestamp <= after[k].value.timestamp

\* a sweep has expired one entry, removed one for capacity and kept one of age
\* exactly CONTEXT_EXPIRY_MS
C13_Witness ==
  /\ lastOp.op = "sweep"
  /\ Len(lastOp.before) = MAX_CONTEXTS + 1
  /\ Cardinality(Unexpired(lastOp.before, now)) = MAX_CONTEXTS
  /\ Len(conversationContexts) = MAX_CONTEXTS
  /\ \E k \in 1..Len(conversationContexts) :
       now - conversationContexts[k].value.timestamp = CONTEXT_EXPIRY_MS

\* C14: a sweep that finds MAX_CONTEXTS + 1 unexpired sessions of distinct
\* account ids with equal timestamps leaves exactly MAX_CONTEXTS entries, and
\* the one removed is the one inserted first.
C14_EvictionOnTies ==
  (/\ lastOp.op = "sweep"
   /\ Len(lastOp.before) = MAX_CONTEXTS + 1
   /\ \A i, j \in 1..Len(lastOp.before) :
        lastOp.before[i].value.timestamp = lastOp.before[j].value.timestamp
   /\ Unexpired(lastOp.before, now) = 1..Len(lastOp.before))
    => /\ Len(conversationContexts) = MAX_CONTEXTS
       /\ conversationContexts = SubSeq(lastOp.before, 2, Len(lastOp.before))

C14_Witness ==
  /\ lastOp.op = "sweep"
  /\ Len(lastOp.before) = MAX_CONTEXTS + 1
  /\ \A i \in 1..Len(lastOp.before) : lastOp.before[i].value.timestamp = now
  /\ conversationContexts = SubSeq(lastOp.before, 2, Len(lastOp.before))
  /\ lastOp.before[1].key = MAX_CONTEXTS + 1

\* C15: when a mention "!chat systemprompt <value>" has set or reset the
\* system prompt of its author, conversationContexts right after the command
\* holds no session of that account, and the sessions of the other accounts
\* are as they were.
C15_CommandClearsSession ==
  [][\A h \in Slots :
       (/\ handler[h].pc = "idle"
        /\ handler'[h].pc = "post"
        /\ handler'[h].response \in {<<"set">>, <<"reset">>})
         => LET accountId == statuses'[handler'[h].status].account.id
            IN /\ ~MapHas(conversationContexts', accountId)
               /\ \A k \in 1..Len(conversationContexts) :
                    conversationContexts[k].key # accountId =>
                      IsEntryOf(conversationContexts[k], conversationContexts')
    ]_vars

\* the first status of the thread a status is in, by its in_reply_to_id links
RECURSIVE ThreadRoot(_, _)
ThreadRoot(sts, id) ==
  IF sts[id].in_reply_to_id = 0 THEN id ELSE ThreadRoot(sts, sts[id].in_reply_to_id)

\* C16: a mention whose ancestors were fetched (or that has none) resolves to
\* the first status of its thread: in a thread A <- B <- C the root resolved
\* for A, for B and for C is A.
C16_RootOfLinearThread ==
  \A h \in Slots :
    (Resolved(h) /\ handler[h].thread \notin {"failed", "empty"})
      => handler[h].rootStatusId = ThreadRoot(statuses, handler[h].status)

\* C replies to B, B to A; A and C are mentions, and C resolved to A
C16_Witness ==
  /\ Resolved(1) /\ Resolved(2)
  /\ handler[1].status = 1 /\ handler[1].rootStatusId = 1
  /\ handler[2].status = 3 /\ handler[2].thread = "ok"
  /\ statuses[3].in_reply_to_id = 2 /\ statuses[2].in_reply_to_id = 1
  /\ handler[2].rootStatusId = 1

Count(text, tok) == Cardinality({k \in 1..Len(text) : text[k] = tok})

\* words separated by one or more <br> tags, and nothing else
IsBrSeparated(html) ==
  /\ html # <<>>
  /\ \A k \in 1..Len(html) : html[k] \in {"a", "b", "<br>"}
  /\ html[1] # "<br>" /\ html[Len(html)] # "<br>"

\* C17: stripHtml turns every <br> into exactly one newline and keeps the
\* order of the text: stripHtml("a<br>b<br>c") is a, newline, b, newline, c,
\* and k tags give exactly k newlines.
C17_EveryBreakIsANewline ==
  (Len(norm) >= 2 /\ IsBrSeparated(norm[1]))
    => /\ norm[2] = [k \in 1..Len(norm[1]) |->
                       IF norm[1][k] = "<br>" THEN "nl" ELSE norm[1][k]]
       /\ Count(norm[2], "nl") = Count(norm[1], "<br>")

\* C18: stripHtml is idempotent: applied to a plain text without markup, and
\* to any text that is already a result of stripHtml, it returns its argument
\* unchanged after the first application.
C18_Idempotent ==
  Len(norm) >= 3 => norm[3] = norm[2]

\* C19: when a sendMessage call that passes its guards starts with
\* currentModelIndex # 0 and at least one minute after modelLastUsed.timestamp,
\* it sets currentModelIndex to 0 and modelLastUsed.timestamp to now before it
\* invokes a backend; updateModelUsage returns true exactly then, and otherwise
\* returns false and leaves currentModelIndex and modelLastUsed as they were.
C19_RouterTick ==
  [][(call[1].pc \in {"idle", "done", "mcp"} /\ call'[1].pc \in {"agent", "invoke"})
       => LET due == currentModelIndex # 0 /\ now - modelLastUsed.timestamp >= 1 IN
          /\ updateModelUsageResult(G, now) <=> due
          /\ IF due
             THEN /\ currentModelIndex' = 0
                  /\ modelLastUsed' = [timestamp |-> now, modelIndex |-> 0]
                  /\ call'[1].pc = "invoke" => call'[1].model = 0
             ELSE /\ currentModelIndex' = currentModelIndex
                  /\ modelLastUsed' = modelLastUsed
    ]_vars

\* a call that started on model 1 a minute after the switch invokes model 0
C19_Witness ==
  /\ call[1].pc = "invoke" /\ call[1].recursiveCount = 0 /\ call[1].invocations = 1
  /\ call[1].index0 = 1 /\ call[1].model = 0
  /\ currentModelIndex = 0
  /\ now = 1 /\ modelLastUsed = [timestamp |-> 1, modelIndex |-> 0]

\* C20: when sendMessage is called with a non-empty history and the backend
\* answers, the history stored for the conversation id afterwards is exactly
\* the given history, then the message as a user turn if it is non-empty, then
\* the filtered reply as a model turn (what was stored before is gone).
C20_SeededHistoryStored ==
  (call[1].pc = "done" /\ call[1].history # <<>> /\ call[1].raw # <<>>)
    => /\ call[1].conversationId \in DOMAIN messageHistories
       /\ arrays[messageHistories[call[1].conversationId]] =
            toMessages(call[1].history)
              \o (IF call[1].message # <<>> THEN <<HumanMessage(call[1].message)>> ELSE <<>>)
              \o <<AIMessage(call[1].ret)>>

\* C21: the timestamp of a session never decreases: in every step an account
\* whose entry stays in conversationContexts keeps a timestamp greater than or
\* equal to the one it had, whether a mention refreshes the session, replaces
\* it, or the step does something else (Date.now() does not run backwards).
C21_LastActivityMonotone ==
  [][\A i \in 1..Len(conversationContexts), j \in 1..Len(conversationContexts') :
       conversationContexts[i].key = conversationContexts'[j].key
         => conversationContexts'[j].value.timestamp
              >= conversationContexts[i].value.timestamp
    ]_vars

\* the session of the first mention has been continued at minute 1
C21_Witness ==
  /\ handler[1].pc = "done" /\ handler[1].isNewConversation
  /\ Resolved(2) /\ ~handler[2].isNewConversation
  /\ handler[2].conversationId = handler[1].conversationId
  /\ now = 1
  /\ Len(conversationContexts) = 1
  /\ conversationContexts[1].value.timestamp = 1
  /\ statuses[1].created_at = 1 /\ handler[1].status = 1

\* C22: every 'error' event, every 'close' event and every failed connect
\* arms one more reconnect timer of the fixed delay, and whenever a timer is
\* pending another connect attempt is eventually made, however many events
\* and failures came before.
C22_ReconnectNeverStops ==
  /\ [][(feed'.events > feed.events \/ feed'.failures > feed.failures)
          => /\ timers' # <<>>
             /\ Len(timers') = Len(timers) + 1
                  - (IF feed'.connects > feed.connects /\ timers # <<>> THEN 1 ELSE 0)
       ]_vars
  /\ [](\A k \in 1..Len(timers) : timers[k] = ReconnectDelay)
  /\ \A n \in 0..(MaxEvents + MaxFailures + 1) :
       (timers # <<>> /\ feed.connects = n) ~> (feed.connects > n)

\* after every failure and every event the environment had, a stream is open
\* again and no timer is left
C22_Witness ==
  /\ feed.failures = MaxFailures /\ feed.events = MaxEvents
  /\ feed.connects = MaxEvents + MaxFailures + 1
  /\ stream # 0 /\ timers = <<>>

\* the settlement of model.invoke that is about to happen is a failure on which
\* llm.ts 428-430 calls switchToNextModel
SwitchDue(s) ==
  /\ call[s].pc = "invoke"
  /\ behaviour[call[s].model] \in Failing
  /\ \/ call[s].i = MaxAttempts - 1
     \/ behaviour[call[s].model] \in {"ratelimit", "notfound"}

\* C23: switchToNextModel with more than one model sets currentModelIndex to
\* (currentModelIndex + 1) mod MODEL_NAMES.length, stamps modelLastUsed with the
\* time and the new index and returns true (sendMessage recurses); with exactly
\* one model it returns false and leaves currentModelIndex and modelLastUsed as
\* they were; in every state currentModelIndex is an index of MODEL_NAMES.
C23_SwitchToNextModel ==
  /\ [](currentModelIndex \in 0..(NModels - 1))
  /\ [][(SwitchDue(1) /\ call'[1] # call[1])
          => IF NModels > 1
             THEN /\ switchToNextModelResult(G)
                  /\ currentModelIndex' = (currentModelIndex + 1) % NModels
                  /\ modelLastUsed' = [timestamp |-> now, modelIndex |-> currentModelIndex']
                  /\ call'[1].recursiveCount = call[1].recursiveCount + 1
             ELSE /\ ~switchToNextModelResult(G)
                  /\ currentModelIndex' = currentModelIndex
                  /\ modelLastUsed' = modelLastUsed
                  /\ call'[1].recursiveCount = call[1].recursiveCount]_vars

\* two models both failing: the second switch of one call has wrapped to model 0
C23_Witness ==
  /\ NModels = 2
  /\ call[1].recursiveCount = 2
  /\ currentModelIndex = 0
  /\ modelLastUsed = [timestamp |-> 1, modelIndex |-> 0]

\* C24: getModelInstance constructs at most one client for a model: a cached
\* client is never replaced, also when two sendMessage calls in flight at once
\* use the same model, so every later call gets the first client; and the cache
\* never holds more entries than there are models.
C24_OneClientPerModel ==
  /\ [](Cardinality(DOMAIN modelInstances) <= NModels)
  /\ [](\A m \in DOMAIN modelInstances :
          modelInstances[m] <= Cardinality(DOMAIN modelInstances))
  /\ [][\A m \in DOMAIN modelInstances :
          m \in DOMAIN modelInstances' /\ modelInstances'[m] = modelInstances[m]]_vars

\* two calls wait for model 0 at once, the second one having found the client
\* the first one constructed
C24_Witness ==
  /\ \A h \in Slots : call[h].pc = "invoke" /\ call[h].model = 0
  /\ modelInstances = (0 :> 1)

\* C25: one activation of sendMessage (its recursive calls not counted) invokes
\* the backend at most MaxAttempts times; a failure classified rate-limit or
\* not-found calls switchToNextModel at once, any other failure (empty text
\* included) only when it is the third invocation of the activation; so
\* ERROR_MESSAGE is returned after failed invocations only when
\* switchToNextModel has been called at least once.
C25_InlineRetry ==
  /\ [](call[1].activation <= MaxAttempts)
  /\ [][(/\ call[1].pc \in {"invoke", "agent"}
         /\ behaviour[call[1].model] \in Failing \ {"empty"} \/ call[1].pc = "invoke"
         /\ behaviour[call[1].model] \in Failing
         /\ call'[1] # call[1])
          => call'[1].switches = call[1].switches +
               (IF \/ behaviour[call[1].model] \in {"ratelimit", "notfound"}
                   \/ call[1].activation = MaxAttempts
                THEN 1 ELSE 0)]_vars
  /\ []((/\ call[1].pc = "done" /\ call[1].ret = ERROR_MESSAGE
         /\ call[1].raw = <<>> /\ call[1].invocations > 0)
          => call[1].switches >= 1)

\* C26: the message list sent to a backend starts with the system turn of this
\* call and holds at most MAX_CONTEXT_LENGTH further turns; when the message
\* history is longer, the turns sent are its last MAX_CONTEXT_LENGTH turns in
\* their order.
C26_ContextWindow ==
  call[1].pc \in {"invoke", "agent"}
    => LET sent == call[1].inputMessages IN
       /\ sent # <<>>
       /\ sent[1] = [role |-> "system", content |-> SystemText(G, call[1], call[1].date)]
       /\ Len(sent) - 1 <= MAX_CONTEXT_LENGTH
       /\ call[1].pc = "invoke"
            => LET messageHistory == arrays[call[1].messageHistory]
                   n == Len(messageHistory)
               IN Tail(sent) = IF n > MAX_CONTEXT_LENGTH
                               THEN SubSeq(messageHistory, n - MAX_CONTEXT_LENGTH + 1, n)
                               ELSE messageHistory

\* C27: a sendMessage called with an empty history argument and a non-empty
\* message whose first backend invocation answers leaves, when it returns, the
\* stored history of its conversation id equal to the history stored when it was
\* called, then the message as a user turn, then the filtered reply as a model
\* turn; and no step of the call changes the history stored for another id.
C27_HistoryEffect ==
  [][\A s \in Slots :
       call'[s] # call[s]
         => LET id == call'[s].conversationId
                old == call'[s].before
                new == StoredHistories(G)'
            IN /\ \A other \in DOMAIN StoredHistories(G) \ {id} :
                    other \in DOMAIN new /\ new[other] = StoredHistories(G)[other]
               /\ (/\ call[s].pc # "done" /\ call'[s].pc = "done"
                   /\ call'[s].history = <<>> /\ call'[s].message # <<>>
                   /\ call'[s].invocations = 1 /\ call'[s].raw # <<>>)
                    => /\ id \in DOMAIN new
                       /\ new[id] = (IF id \in DOMAIN old THEN old[id] ELSE <<>>)
                                      \o <<HumanMessage(call'[s].message),
                                           AIMessage(call'[s].ret)>>]_vars

\* the ancestor of a status with the smallest created_at
OldestAncestor(sts, id) ==
  LET ancestors == {AncestorsOf(sts, id)[k] : k \in 1..Len(AncestorsOf(sts, id))} IN
  CHOOSE a \in ancestors : \A b \in ancestors : sts[a].created_at <= sts[b].created_at

\* C28: the root resolved for a mention is the mention's own id when it has no
\* parent, when getStatusContext fails and when it returns no ancestors;
\* otherwise it is the id of the ancestor with the smallest created_at, in
\* whatever order the ancestors were returned; and after a failed
\* getStatusContext the handler goes on to look the session up.
C28_ResolveRoot ==
  \A h \in Slots :
    LET id == handler[h].status IN
    /\ handler[h].thread # "none" => Resolved(h) /\ statuses[id].in_reply_to_id # 0
    /\ Resolved(h)
         => /\ handler[h].thread = "none" <=> statuses[id].in_reply_to_id = 0
            /\ handler[h].thread \in {"none", "failed", "empty"}
                 => handler[h].rootStatusId = id
            /\ handler[h].thread = "ok"
                 => handler[h].rootStatusId = OldestAncestor(statuses, id)

\* the fetch of the ancestors of a reply failed, the mention was answered all
\* the same, within a conversation rooted at the mention itself
C28_Witness ==
  /\ handler[2].thread = "failed"
  /\ statuses[handler[2].status].in_reply_to_id # 0
  /\ handler[2].rootStatusId = handler[2].status
  /\ handler[2].pc = "done"

\* what buildConversationHistory is to make of a status
Turn(st) ==
  [role |-> IF st.account = Bot THEN "model" ELSE "user", content |-> stripHtml(st.content)]

AfterHandle(content) ==
  LET marks == {k \in 1..(Len(content) - 2) :
                  /\ content[k] \in {MeHandle, MeFullHandle}
                  /\ content[k + 1] = "sp"
                  /\ content[k + 2] \in {"!chat", "!x"}}
      first == CHOOSE k \in marks : \A l \in marks : k <= l
  IN Trim(SubSeq(content, first + 1, Len(content)))

\* C30: a mention whose text holds the skip marker calls no sendMessage and
\* changes no entry of conversationContexts; a reply is posted only when the
\* text after the handle is a !chat command, and the reply is then what
\* handleChatCommand returns for it.
C30_SkipMarker ==
  /\ [](\A h \in Slots :
          HasSkipMarker(handler[h].content)
            => call[h] = IdleCall /\ handler[h].pc \in {"skipped", "post", "done"})
  /\ [][\A h \in Slots :
          (handler[h].pc = "idle" /\ HasSkipMarker(handler'[h].content))
            => LET text == AfterHandle(handler'[h].content)
                   acct == statuses'[handler'[h].status].account.acct
               IN /\ call' = call
                  /\ messageHistories' = messageHistories
                  /\ conversationContexts' = conversationContexts
                  /\ IF posted' # posted
                     THEN /\ isChatCommand(text)
                          /\ handler'[h].response = handleChatCommand(G, text, acct).text
                          /\ Len(posted') = Len(posted) + 1
                          /\ posted'[Len(posted')].in_reply_to_id = handler'[h].status
                     ELSE handler'[h].pc = "skipped"]_vars

C32_ArgumentSelection ==
  /\ [](\A h \in Slots :
          call[h].pc # "idle"
            => /\ call[h].history # <<>>
                    => handler[h].isNewConversation /\ call[h].message = <<>>
               /\ handler[h].isNewConversation
                    => call[h].message = <<>> /\ call[h].history = handler[h].history
               /\ ~handler[h].isNewConversation
                    => /\ call[h].history = <<>>
                       /\ call[h].message = stripHtml(statuses[handler[h].status].content))
  /\ [][\A h \in Slots :
          LET accountId == statuses'[handler'[h].status].account.id IN
          /\ (Resolved(h)' /\ ~Resolved(h))
               => (handler'[h].isNewConversation
                     <=> (\/ ~MapHas(conversationContexts, accountId)
                          \/ MapGet(conversationContexts, accountId).rootStatusId
                               # handler'[h].rootStatusId))
          /\ (handler'[h].pc = "posts" /\ handler[h].pc # "posts")
               => /\ MapHas(conversationContexts', accountId)
                  /\ MapGet(conversationContexts', accountId).id
                       = handler'[h].conversationId]_vars

\* the first mention opened the conversation with a transcript and no message,
\* the second one continues it with its text and no transcript
C32_Witness ==
  /\ handler[1].isNewConversation /\ call[1].pc # "idle"
  /\ call[1].history # <<>> /\ call[1].message = <<>>
  /\ ~handler[2].isNewConversation /\ call[2].pc = "invoke"
  /\ call[2].history = <<>> /\ call[2].message = <<MeHandle, "sp", "hi">>

\* C33: when a sendMessage called with an empty history argument returns the
\* reply of a backend, the history stored for its conversation id holds the
\* message of the call once more than it did before the call, also when the
\* reply came from another model after one or more recursive calls.
C33_MessageStoredOnce ==
  (/\ call[1].pc = "done" /\ call[1].history = <<>>
   /\ call[1].message # <<>> /\ call[1].raw # <<>>)
    => LET id == call[1].conversationId
           old == IF id \in DOMAIN call[1].before THEN call[1].before[id] ELSE <<>>
       IN /\ id \in DOMAIN messageHistories
          /\ Count(StoredHistories(G)[id], HumanMessage(call[1].message))
               = Count(old, HumanMessage(call[1].message)) + 1

\* C34: every conversation id that has a history in messageHistories is the id
\* of a session in conversationContexts: a session that is swept, cleared or
\* replaced by one of another root takes its history with it.
C34_HistoriesFollowSessions ==
  \A id \in DOMAIN messageHistories :
    \E k \in 1..Len(conversationContexts) : conversationContexts[k].value.id = id

\* the streams that still deliver notifications to a listener of connect
LiveStreams == {id \in DOMAIN sockets : ~sockets[id].stopped}

\* C35: whatever error and close events the streams emit, an error followed by
\* a close of the same stream included, at most one reconnect timer is pending
\* and at most one stream with a notification listener is live, so that a
\* mention is handed to handleMention at most once.
C35_OneTimerOneStream ==
  /\ Len(timers) <= 1
  /\ Cardinality(LiveStreams) <= 1

\* C36: when a mention opens a new conversation and buildConversationHistory
\* failed (it answered the empty transcript), the message list sent to the
\* backend still holds a user turn with the normalized text of the mention.
C36_FailedTranscriptKeepsMention ==
  \A h \in Slots :
    (/\ handler[h].isNewConversation /\ handler[h].built = "failed"
     /\ call[h].pc \in {"invoke", "agent"})
      => \E k \in 1..Len(call[h].inputMessages) :
           call[h].inputMessages[k]
             = HumanMessage(stripHtml(statuses[handler[h].status].content))

\* C37: an activation of sendMessage that returns at the guard on the message
\* or at the guard on recursiveCount changes nothing: the histories stored for
\* all conversation ids, currentModelIndex, modelLastUsed and modelInstances
\* are after it what they were when it was entered.
C37_GuardsChangeNothing ==
  (call[1].pc = "done" /\ call[1].activation = 0)
    => /\ call[1].ret = ERROR_MESSAGE
       /\ Frame(G) = call[1].entry
       /\ call[1].recursiveCount = 0 => StoredHistories(G) = call[1].before

\* the guard on recursiveCount has ended a call that had switched models and
\* stored turns in the activations before this one
C37_Witness ==
  /\ call[1].pc = "done" /\ call[1].activation = 0
  /\ isMessageSafe(call[1].message)
  /\ call[1].recursiveCount > Cardinality(DOMAIN modelInstances) * 3 + 1
  /\ StoredHistories(G) # call[1].before
  /\ Frame(G) = call[1].entry

\* C38: when getStatusContext fails for a mention that is a reply in the
\* thread of the session stored for its account, the mention is handled as a
\* new conversation: isNewConversation is true, the conversation id is
\* "{account id}-{status id}" with the mention's own id as the root, and the
\* session stored when buildConversationHistory has returned is that one.
C38_FailedFetchStartsAnew ==
  [][\A h \in Slots :
       LET id == handler'[h].status
           accountId == statuses'[id].account.id
       IN /\ (/\ handler[h].pc = "root" /\ handler'[h].thread = "failed"
              /\ MapHas(conversationContexts, accountId)
              /\ MapGet(conversationContexts, accountId).rootStatusId
                   = ThreadRoot(statuses, id))
               => /\ handler'[h].isNewConversation
                  /\ handler'[h].rootStatusId = id
                  /\ handler'[h].conversationId = <<accountId, id>>
                  /\ handler'[h].pc = "history"
          /\ (/\ handler[h].pc = "history" /\ handler'[h].pc # "history"
              /\ handler[h].thread = "failed")
               => /\ MapHas(conversationContexts', accountId)
                  /\ MapGet(conversationContexts', accountId).id = <<accountId, id>>
                  /\ MapGet(conversationContexts', accountId).rootStatusId = id
                  /\ handler'[h].isNewConversation]_vars

\* the second mention answers the bot's reply in the thread of the first one;
\* its fetch failed, and the session of the first mention has been replaced
C38_Witness ==
  /\ handler[1].pc = "done" /\ handler[2].thread = "failed"
  /\ statuses[handler[2].status].account = statuses[handler[1].status].account
  /\ handler[1].rootStatusId = ThreadRoot(statuses, handler[2].status)
  /\ handler[2].status # handler[1].rootStatusId
  /\ handler[2].isNewConversation /\ handler[2].pc = "posts"
  /\ LET accountId == statuses[handler[2].status].account.id
     IN /\ MapHas(conversationContexts, accountId)
        /\ MapGet(conversationContexts, accountId).id = <<accountId, handler[2].status>>
        /\ MapGet(conversationContexts, accountId).rootStatusId = handler[2].status

\* C39: with NModels models configured, a call of sendMessage never reaches a
\* recursiveCount above 3 * NModels + 2 and never invokes a backend more than
\* 3 * (3 * NModels + 2) times in all, whatever the backends answer.
C39_RetryBudget ==
  /\ call[1].recursiveCount <= 3 * NModels + 2
  /\ call[1].invocations <= MaxAttempts * (3 * NModels + 2)

====
